---- MODULE Spec2Model ----
(***************************************************************************)
(* Model of the WOO tokenomics simulation engine (src/js/simulation.js,    *)
(* class WOOSimulation) with the configuration constants of config.js      *)
(* (src/unnamed/part_001).                                                 *)
(*                                                                         *)
(* JavaScript numbers are modelled in fixed point, one unit per quantity:  *)
(*   volumes            millions of USD      (USD_PER_M)                   *)
(*   rates              parts per million                                  *)
(*   USD flows          USD                  (volume[M] * rate[ppm])       *)
(*   shares, decay      percent              (PCT)                         *)
(*   impacts            percent points       (PCT)                         *)
(*   supply ratios      basis points         (BPS)                         *)
(*   token amounts      thousands of tokens  (KTOK)                        *)
(*   price              1/10000 USD          (PRICE_UNIT)                  *)
(*   history, tokens    millions of tokens   (value / 1e6)                 *)
(*   history, USD       thousands of USD     (KUSD)                        *)
(*   market cap         millions of USD                                    *)
(* Divisions round down.  NaN (and undefined, which every use here turns   *)
(* into NaN by ToNumber) is one reserved value that all arithmetic         *)
(* propagates and every comparison rejects, as IEEE 754 does.              *)
(***************************************************************************)
EXTENDS Integers, Sequences, FiniteSets, TLC

VARIABLES simParams, simState, modelVersion, absent, controls, lastOp, ret, path,
          threw, trueCalls, stops, status, consoleErrors

vars == <<simParams, simState, modelVersion, absent, controls, lastOp, ret, path,
          threw, trueCalls, stops, status, consoleErrors>>

----------------------------------------------------------------------------
(* Numbers *)

NaN == -2147483647
Infinity == 2147483647
\* the value null, stored for a ratio that is not a finite number
null == -2147483646

IsNaN(x) == x = NaN
isFinite(x) == x # NaN /\ x # Infinity

Add(a, b) == IF IsNaN(a) \/ IsNaN(b) THEN NaN ELSE a + b
Sub(a, b) == IF IsNaN(a) \/ IsNaN(b) THEN NaN ELSE a - b
Mul(a, b) == IF IsNaN(a) \/ IsNaN(b) THEN NaN ELSE a * b
\* a * b / d with the division written out by the unit of the factor b
MulDiv(a, b, d) == IF IsNaN(a) \/ IsNaN(b) THEN NaN ELSE (a * b) \div d
\* a / d for a positive literal d
DivBy(a, d) == IF IsNaN(a) THEN NaN ELSE a \div d

Lt(a, b) == ~IsNaN(a) /\ ~IsNaN(b) /\ a < b
Le(a, b) == ~IsNaN(a) /\ ~IsNaN(b) /\ a <= b
Gt(a, b) == ~IsNaN(a) /\ ~IsNaN(b) /\ a > b
Ge(a, b) == ~IsNaN(a) /\ ~IsNaN(b) /\ a >= b

\* x || 0 of a number x
OrZero(x) == IF IsNaN(x) THEN 0 ELSE x

\* The largest magnitude the model's numbers hold; a product beyond it is held
\* there (the doubles of the code go on to 1.8e308).
Huge == 2000000000
Times(a, b) ==
    IF IsNaN(a) \/ IsNaN(b) THEN NaN
    ELSE IF a > 0 /\ b > 0 /\ b > Huge \div a THEN Huge
    ELSE a * b

MathMax(a, b) == IF IsNaN(a) \/ IsNaN(b) THEN NaN ELSE IF a >= b THEN a ELSE b
MathMin(a, b) == IF IsNaN(a) \/ IsNaN(b) THEN NaN ELSE IF a <= b THEN a ELSE b

\* Units
PCT == 100
USD_PER_M == 1000000
BPS == 10000
KTOK == 1000
PRICE_UNIT == 10000
DAYS == 30
KUSD == 1000
MONTHS_PER_YEAR == 12

\* A control's value is a text: <<n>> is the decimal text of the number n,
\* <<>> a text without a numeric prefix ("" or "abc").
parseFloat(text) == IF text = <<>> THEN NaN ELSE text[1]
parseInt(text) == IF text = <<>> THEN NaN ELSE text[1]

\* Bounds of the model
MaxDuration == 12
MaxStops == 2

----------------------------------------------------------------------------
(* config.js *)

PRICE_MIN == 1
PRICE_MAX == 10000000

INITIAL_STATE ==
    [ woo_price |-> 650,
      max_supply |-> 3000000,
      total_supply |-> 2209243,
      circulating_supply |-> 1909243,
      total_staked_woo |-> 629528,
      woofi_treasury_balance |-> 41766,
      woox_treasury_balance |-> 32529,
      cumulative_tokens_burned |-> 0,
      temporary_price_impact |-> 0,
      tokens_to_burn |-> 0,
      buyback_usd |-> 0,
      auto_compound_usd |-> 0,
      market_purchase_tokens |-> 0,
      buyback_burn_amount |-> 0,
      permanent_impact |-> 0,
      total_temporary_impact |-> 0 ]

FIXED_PARAMS ==
    [ woox_total_fee_rate |-> 100,
      woofi_staker_share |-> 80,
      woox_staker_bps_reward |-> 10 ]

DEFAULT_VALUES ==
    [ woofiSwapVolume |-> <<49>>,
      woofiPerpVolume |-> <<11>>,
      wooxVolume |-> <<366>>,
      affiliateCut |-> <<60>>,
      woofiTradingFeeRate |-> <<8>>,
      supplyElasticity |-> <<10>>,
      buyingPressureElasticity |-> <<2>>,
      buyingPressureDecay |-> <<15>>,
      circulatingSupply |-> <<1909>>,
      simulationDuration |-> <<MaxDuration>>,
      initialStaked |-> <<630>>,
      initialWoofiTreasury |-> <<42>>,
      initialWooxTreasury |-> <<33>>,
      autoCompoundRate |-> <<70>>,
      buybackBurnShare |-> <<50>>,
      stakerShare |-> <<30>>,
      treasuryShare |-> <<20>>,
      wooxStakerBps |-> <<10>> ]

----------------------------------------------------------------------------
(* new WOOSimulation(): simState = {}, simParams = {} *)

EmptyHistory ==
    [ months |-> <<>>, woofi_treasury |-> <<>>, woox_treasury |-> <<>>,
      circulating |-> <<>>, staked |-> <<>>, price |-> <<>>,
      monthlyBurned |-> <<>>, marketPurchases |-> <<>>, permImpact |-> <<>>,
      tempImpact |-> <<>>, usdc_distributed |-> <<>>, buyback_amounts |-> <<>>,
      auto_compound_amounts |-> <<>>, treasury_inflows |-> <<>>,
      woofi_fees_generated |-> <<>>, woox_fees_generated |-> <<>>,
      woox_treasury_inflows |-> <<>>, staker_fees_received |-> <<>>,
      treasury_fees_received |-> <<>>, orderly_fees_received |-> <<>>,
      buyback_fees_received |-> <<>>, treasury_runway_months |-> <<>>,
      price_change_pct |-> <<>>, supply_reduction_pct |-> <<>>,
      cumulative_burned |-> <<>>, staking_ratio |-> <<>>, treasury_runway |-> <<>> ]

\* No annual ratio is stored: annual_pr_ratios is created by the first write,
\* annual_pv_ratios_usd and annual_pv_ratios_market start as [].
NoAnnualRatios ==
    [ annual_pr_ratios |-> <<>>,
      annual_pv_ratios_usd |-> <<>>,
      annual_pv_ratios_market |-> <<>> ]

UndefinedParams ==
    [ monthly_woofi_swap_volume |-> NaN,
      monthly_woofi_perp_volume |-> NaN,
      monthly_woox_volume |-> NaN,
      woofi_staker_share |-> NaN,
      auto_compound_adoption_rate |-> NaN,
      woox_staker_bps |-> NaN,
      buyback_burn_share |-> NaN,
      staker_share |-> NaN,
      treasury_share |-> NaN,
      affiliate_share |-> NaN,
      woofi_fee_rate |-> NaN,
      supply_elasticity |-> NaN,
      buying_pressure_elasticity |-> NaN,
      buying_pressure_decay |-> NaN,
      simulation_months |-> NaN,
      initial_circulating_supply |-> NaN,
      woox_total_fee_rate |-> NaN,
      woox_staker_bps_reward |-> NaN ]

UndefinedState ==
    [ month |-> NaN,
      history_defined |-> FALSE,
      history |-> EmptyHistory,
      initial_values |-> [ price |-> NaN, circulating_supply |-> NaN,
                           total_treasury |-> NaN, total_staked |-> NaN ] ]
    @@ NoAnnualRatios
    @@ [ f \in DOMAIN INITIAL_STATE |-> NaN ]

----------------------------------------------------------------------------
(* initialize(controls, modelVersion) *)

\* Controls read while the simParams literal is evaluated (lines 22-50).
ParamControls(mv) ==
    { "woofiSwapVolume", "woofiPerpVolume", "wooxVolume", "affiliateCut",
      "woofiTradingFeeRate", "supplyElasticity", "buyingPressureElasticity",
      "buyingPressureDecay", "simulationDuration", "circulatingSupply" }
    \cup (IF mv = "v1" THEN { "autoCompoundRate" }
          ELSE { "buybackBurnShare", "stakerShare", "treasuryShare", "wooxStakerBps" })

\* Controls read while the simState literal is evaluated (lines 53-106).
StateControls == { "initialStaked", "initialWoofiTreasury", "initialWooxTreasury" }

\* controls.<name>.value of an absent control throws a TypeError.
ParamsThrow(c, mv) == ~(ParamControls(mv) \subseteq DOMAIN c)
StateThrows(c) == ~(StateControls \subseteq DOMAIN c)

BuildParams(c, mv) ==
    [ monthly_woofi_swap_volume |-> Mul(parseFloat(c.woofiSwapVolume), DAYS),
      monthly_woofi_perp_volume |-> Mul(parseFloat(c.woofiPerpVolume), DAYS),
      monthly_woox_volume |-> Mul(parseFloat(c.wooxVolume), DAYS),
      woofi_staker_share |-> FIXED_PARAMS.woofi_staker_share,
      auto_compound_adoption_rate |->
          IF mv = "v1" THEN parseFloat(c.autoCompoundRate) ELSE NaN,
      woox_staker_bps |->
          IF mv = "v1" THEN FIXED_PARAMS.woox_staker_bps_reward
          ELSE parseFloat(c.wooxStakerBps),
      buyback_burn_share |-> IF mv = "v1" THEN NaN ELSE parseFloat(c.buybackBurnShare),
      staker_share |-> IF mv = "v1" THEN NaN ELSE parseFloat(c.stakerShare),
      treasury_share |-> IF mv = "v1" THEN NaN ELSE parseFloat(c.treasuryShare),
      affiliate_share |-> parseFloat(c.affiliateCut),
      woofi_fee_rate |-> parseFloat(c.woofiTradingFeeRate),
      supply_elasticity |-> parseFloat(c.supplyElasticity),
      buying_pressure_elasticity |-> parseFloat(c.buyingPressureElasticity),
      buying_pressure_decay |-> parseFloat(c.buyingPressureDecay),
      simulation_months |-> parseInt(c.simulationDuration),
      initial_circulating_supply |-> Mul(parseFloat(c.circulatingSupply), KTOK),
      woox_total_fee_rate |-> FIXED_PARAMS.woox_total_fee_rate,
      woox_staker_bps_reward |-> FIXED_PARAMS.woox_staker_bps_reward ]

BuildState(c, p) ==
    LET circ == p.initial_circulating_supply
        staked == Mul(parseFloat(c.initialStaked), KTOK)
        woofi == Mul(parseFloat(c.initialWoofiTreasury), KTOK)
        woox == Mul(parseFloat(c.initialWooxTreasury), KTOK)
    IN  [ month |-> 0,
          circulating_supply |-> circ,
          total_staked_woo |-> staked,
          woofi_treasury_balance |-> woofi,
          woox_treasury_balance |-> woox,
          history_defined |-> TRUE,
          history |-> EmptyHistory,
          initial_values |-> [ price |-> INITIAL_STATE.woo_price,
                               circulating_supply |-> circ,
                               total_treasury |-> Add(woofi, woox),
                               total_staked |-> staked ] ]
        @@ NoAnnualRatios
        @@ INITIAL_STATE

----------------------------------------------------------------------------
(* The monthly pipeline *)

\* usd / price, in thousands of tokens; callers guard price > 0
TokensAt(usd, price) ==
    IF IsNaN(usd) \/ IsNaN(price) THEN NaN
    ELSE (usd * (PRICE_UNIT \div KTOK)) \div price

calculateFees(p) ==
    LET gross_woofi_swap_fees == Mul(p.monthly_woofi_swap_volume, p.woofi_fee_rate)
        gross_woofi_perp_fees == Mul(p.monthly_woofi_perp_volume, p.woofi_fee_rate)
        total_woox_fees == Mul(p.monthly_woox_volume, p.woox_total_fee_rate)
        woox_staker_rewards == Mul(p.monthly_woox_volume, p.woox_staker_bps)
    IN  [ gross_woofi_swap_fees |-> gross_woofi_swap_fees,
          gross_woofi_perp_fees |-> gross_woofi_perp_fees,
          total_gross_woofi_fees |-> Add(gross_woofi_swap_fees, gross_woofi_perp_fees),
          woox_staker_rewards |-> woox_staker_rewards,
          total_woox_fees |-> total_woox_fees,
          woox_treasury_inflow |-> Sub(total_woox_fees, woox_staker_rewards) ]

distributeFeesV1(p, feeData) ==
    LET net_swap_fees == feeData.gross_woofi_swap_fees
        swap_staker_rewards == MulDiv(net_swap_fees, p.woofi_staker_share, PCT)
        swap_treasury_inflow == MulDiv(net_swap_fees, Sub(PCT, p.woofi_staker_share), PCT)
        perp_affiliate_cut == MulDiv(feeData.gross_woofi_perp_fees, p.affiliate_share, PCT)
        net_perp_fees == Sub(feeData.gross_woofi_perp_fees, perp_affiliate_cut)
        perp_staker_rewards == MulDiv(net_perp_fees, p.woofi_staker_share, PCT)
        perp_treasury_inflow == MulDiv(net_perp_fees, Sub(PCT, p.woofi_staker_share), PCT)
        total_woofi_staker_rewards == Add(swap_staker_rewards, perp_staker_rewards)
    IN  [ buyback_burn_amount |-> 0,
          affiliate_cut |-> perp_affiliate_cut,
          woofi_staker_rewards |-> total_woofi_staker_rewards,
          woofi_treasury_inflow_usd |-> Add(swap_treasury_inflow, perp_treasury_inflow),
          woox_treasury_inflow_usd |-> feeData.woox_treasury_inflow,
          total_staker_rewards_usd |->
              Add(total_woofi_staker_rewards, feeData.woox_staker_rewards),
          staker_fees_total |-> Add(total_woofi_staker_rewards, feeData.woox_staker_rewards),
          treasury_fees_total |->
              Add(Add(swap_treasury_inflow, perp_treasury_inflow),
                  feeData.woox_treasury_inflow),
          orderly_fees_total |-> perp_affiliate_cut,
          buyback_fees_total |-> 0 ]

\* the treasury's part of the perp fees is taken before the affiliate cut
distributeFeesV2_TreasuryFromGross(p, feeData) ==
    LET net_swap_fees == feeData.gross_woofi_swap_fees
        perp_affiliate_cut == MulDiv(feeData.gross_woofi_perp_fees, p.affiliate_share, PCT)
        net_perp_fees == Sub(feeData.gross_woofi_perp_fees, perp_affiliate_cut)
        total_woofi_staker_rewards ==
            Add(MulDiv(net_swap_fees, p.staker_share, PCT),
                MulDiv(net_perp_fees, p.staker_share, PCT))
        total_buyback_burn_amount ==
            Add(MulDiv(net_swap_fees, p.buyback_burn_share, PCT),
                MulDiv(net_perp_fees, p.buyback_burn_share, PCT))
    IN  [ buyback_burn_amount |-> total_buyback_burn_amount,
          affiliate_cut |-> perp_affiliate_cut,
          woofi_staker_rewards |-> total_woofi_staker_rewards,
          woofi_treasury_inflow_usd |->
              Add(MulDiv(net_swap_fees, p.treasury_share, PCT),
                  MulDiv(feeData.gross_woofi_perp_fees, p.treasury_share, PCT)),
          woox_treasury_inflow_usd |-> feeData.woox_treasury_inflow,
          total_staker_rewards_usd |->
              Add(total_woofi_staker_rewards, feeData.woox_staker_rewards),
          staker_fees_total |-> Add(total_woofi_staker_rewards, feeData.woox_staker_rewards),
          treasury_fees_total |->
              Add(Add(MulDiv(net_swap_fees, p.treasury_share, PCT),
                      MulDiv(feeData.gross_woofi_perp_fees, p.treasury_share, PCT)),
                  feeData.woox_treasury_inflow),
          orderly_fees_total |-> perp_affiliate_cut,
          buyback_fees_total |-> total_buyback_burn_amount ]

distributeFeesV2(p, feeData) ==
    LET net_swap_fees == feeData.gross_woofi_swap_fees
        swap_buyback_amount == MulDiv(net_swap_fees, p.buyback_burn_share, PCT)
        swap_staker_rewards == MulDiv(net_swap_fees, p.staker_share, PCT)
        swap_treasury_inflow == MulDiv(net_swap_fees, p.treasury_share, PCT)
        perp_affiliate_cut == MulDiv(feeData.gross_woofi_perp_fees, p.affiliate_share, PCT)
        net_perp_fees == Sub(feeData.gross_woofi_perp_fees, perp_affiliate_cut)
        perp_buyback_amount == MulDiv(net_perp_fees, p.buyback_burn_share, PCT)
        perp_staker_rewards == MulDiv(net_perp_fees, p.staker_share, PCT)
        perp_treasury_inflow == MulDiv(net_perp_fees, p.treasury_share, PCT)
        total_woofi_staker_rewards == Add(swap_staker_rewards, perp_staker_rewards)
    IN  [ buyback_burn_amount |-> Add(swap_buyback_amount, perp_buyback_amount),
          affiliate_cut |-> perp_affiliate_cut,
          woofi_staker_rewards |-> total_woofi_staker_rewards,
          woofi_treasury_inflow_usd |-> Add(swap_treasury_inflow, perp_treasury_inflow),
          woox_treasury_inflow_usd |-> feeData.woox_treasury_inflow,
          total_staker_rewards_usd |->
              Add(total_woofi_staker_rewards, feeData.woox_staker_rewards),
          staker_fees_total |-> Add(total_woofi_staker_rewards, feeData.woox_staker_rewards),
          treasury_fees_total |->
              Add(Add(swap_treasury_inflow, perp_treasury_inflow),
                  feeData.woox_treasury_inflow),
          orderly_fees_total |-> perp_affiliate_cut,
          buyback_fees_total |-> Add(swap_buyback_amount, perp_buyback_amount) ]

\* Variant B is given Variant A's distribution
distributeFees_V1Always(p, mv, feeData) == distributeFeesV1(p, feeData)

distributeFees(p, mv, feeData) ==
    IF mv = "v1" THEN distributeFeesV1(p, feeData) ELSE distributeFeesV2(p, feeData)

\* The all-zero result both strategies return on an invalid input.
ZeroBurn ==
    [ buyback_usd |-> 0, auto_compound_usd |-> 0, usdc_distribution |-> 0,
      market_purchase_tokens |-> 0, tokens_burned |-> 0, usdc_to_stakers |-> 0,
      woofi_tokens_burned |-> 0, woox_tokens_burned |-> 0 ]

\* the treasury burns the whole purchase, whatever its balance
calculateAutoCompoundAndBurn_Uncapped(st, p, distributionData) ==
    LET total_staker_rewards == distributionData.total_staker_rewards_usd
        auto_compound_usd == MulDiv(total_staker_rewards, p.auto_compound_adoption_rate, PCT)
        usdc_distribution == Sub(total_staker_rewards, auto_compound_usd)
        market_purchase_tokens ==
            IF Gt(auto_compound_usd, 0) THEN TokensAt(auto_compound_usd, st.woo_price) ELSE 0
        woofi_tokens_burned == market_purchase_tokens
    IN  IF Lt(total_staker_rewards, 0) \/ ~isFinite(total_staker_rewards) THEN ZeroBurn
        ELSE IF Le(st.woo_price, 0) \/ ~isFinite(st.woo_price) THEN ZeroBurn
        ELSE [ buyback_usd |-> 0,
               auto_compound_usd |-> auto_compound_usd,
               usdc_distribution |-> usdc_distribution,
               market_purchase_tokens |-> market_purchase_tokens,
               tokens_burned |-> Add(woofi_tokens_burned, 0),
               usdc_to_stakers |-> usdc_distribution,
               woofi_tokens_burned |-> woofi_tokens_burned,
               woox_tokens_burned |-> 0 ]

calculateAutoCompoundAndBurn(st, p, distributionData) ==
    LET total_staker_rewards == distributionData.total_staker_rewards_usd
        auto_compound_usd == MulDiv(total_staker_rewards, p.auto_compound_adoption_rate, PCT)
        usdc_distribution == Sub(total_staker_rewards, auto_compound_usd)
        market_purchase_tokens ==
            IF Gt(auto_compound_usd, 0) THEN TokensAt(auto_compound_usd, st.woo_price) ELSE 0
        woofi_tokens_burned == MathMin(market_purchase_tokens, st.woofi_treasury_balance)
    IN  IF Lt(total_staker_rewards, 0) \/ ~isFinite(total_staker_rewards) THEN ZeroBurn
        ELSE IF Le(st.woo_price, 0) \/ ~isFinite(st.woo_price) THEN ZeroBurn
        ELSE [ buyback_usd |-> 0,
               auto_compound_usd |-> auto_compound_usd,
               usdc_distribution |-> usdc_distribution,
               market_purchase_tokens |-> market_purchase_tokens,
               tokens_burned |-> Add(woofi_tokens_burned, 0),
               usdc_to_stakers |-> usdc_distribution,
               woofi_tokens_burned |-> woofi_tokens_burned,
               woox_tokens_burned |-> 0 ]

\* the burn is matched by the WOOFi treasury, as in Variant A
calculateBuybackAndBurnV2_TreasuryMatched(st, p, distributionData) ==
    LET buyback_usd == distributionData.buyback_burn_amount
        market_purchase_tokens == TokensAt(buyback_usd, st.woo_price)
        zero == [ ZeroBurn EXCEPT !.auto_compound_usd = NaN, !.usdc_distribution = NaN ]
    IN  IF Lt(buyback_usd, 0) \/ ~isFinite(buyback_usd) THEN zero
        ELSE IF Le(st.woo_price, 0) \/ ~isFinite(st.woo_price) THEN zero
        ELSE [ buyback_usd |-> buyback_usd,
               auto_compound_usd |-> NaN,
               usdc_distribution |-> NaN,
               market_purchase_tokens |-> market_purchase_tokens,
               tokens_burned |-> MathMin(market_purchase_tokens, st.woofi_treasury_balance),
               usdc_to_stakers |-> distributionData.total_staker_rewards_usd,
               woofi_tokens_burned |->
                   MathMin(market_purchase_tokens, st.woofi_treasury_balance),
               woox_tokens_burned |-> 0 ]

\* The V2 results carry no auto_compound_usd / usdc_distribution (undefined).
calculateBuybackAndBurnV2(st, p, distributionData) ==
    LET buyback_usd == distributionData.buyback_burn_amount
        market_purchase_tokens == TokensAt(buyback_usd, st.woo_price)
        zero == [ ZeroBurn EXCEPT !.auto_compound_usd = NaN, !.usdc_distribution = NaN ]
    IN  IF Lt(buyback_usd, 0) \/ ~isFinite(buyback_usd) THEN zero
        ELSE IF Le(st.woo_price, 0) \/ ~isFinite(st.woo_price) THEN zero
        ELSE [ buyback_usd |-> buyback_usd,
               auto_compound_usd |-> NaN,
               usdc_distribution |-> NaN,
               market_purchase_tokens |-> market_purchase_tokens,
               tokens_burned |-> market_purchase_tokens,
               usdc_to_stakers |-> distributionData.total_staker_rewards_usd,
               woofi_tokens_burned |-> 0,
               woox_tokens_burned |-> 0 ]

\* Variant A's purchase is cut down to the tokens the treasury can match
calculateBuybackAndBurn_PurchaseCapped(st, p, mv, distributionData) ==
    IF mv = "v1"
    THEN LET burnData == calculateAutoCompoundAndBurn(st, p, distributionData)
         IN  [ burnData EXCEPT !.market_purchase_tokens = burnData.tokens_burned ]
    ELSE calculateBuybackAndBurnV2(st, p, distributionData)

calculateBuybackAndBurn(st, p, mv, distributionData) ==
    IF mv = "v1" THEN calculateAutoCompoundAndBurn(st, p, distributionData)
    ELSE calculateBuybackAndBurnV2(st, p, distributionData)

\* console.error of the burn strategies: the first invalid input is reported
calculateBuybackAndBurnErrors(st, p, mv, distributionData) ==
    LET usd == IF mv = "v1" THEN distributionData.total_staker_rewards_usd
               ELSE distributionData.buyback_burn_amount
    IN  IF Lt(usd, 0) \/ ~isFinite(usd)
        THEN { IF mv = "v1" THEN "Invalid staker rewards" ELSE "Invalid buyback_usd" }
        ELSE IF Le(st.woo_price, 0) \/ ~isFinite(st.woo_price) THEN { "Invalid WOO price" }
        ELSE {}

\* the carried-over impact is multiplied by the decay rate, not by 1 - decay
calculatePriceImpact_DecayInverted(st, p, mv, burnData) ==
    LET supply_reduction_pct ==
            IF Gt(st.circulating_supply, 0)
            THEN MulDiv(burnData.tokens_burned, BPS, st.circulating_supply)
            ELSE 0
        permanent_impact == MulDiv(supply_reduction_pct, p.supply_elasticity, PCT)
        market_depth_proxy ==
            DivBy(Add(p.monthly_woofi_swap_volume, p.monthly_woox_volume), DAYS)
        buying_pressure_usd ==
            IF mv = "v1" THEN burnData.auto_compound_usd ELSE burnData.buyback_usd
        buy_pressure_ratio ==
            IF Gt(market_depth_proxy, 0)
            THEN DivBy(buying_pressure_usd, market_depth_proxy * (USD_PER_M \div BPS))
            ELSE 0
        new_temporary_impact == MulDiv(buy_pressure_ratio, p.buying_pressure_elasticity, PCT)
        decayed_impact ==
            MulDiv(st.temporary_price_impact, p.buying_pressure_decay, PCT)
    IN  [ permanent_impact |-> permanent_impact,
          new_temporary_impact |-> new_temporary_impact,
          total_temporary_impact |-> Add(decayed_impact, new_temporary_impact) ]

calculatePriceImpact(st, p, mv, burnData) ==
    LET supply_reduction_pct ==
            IF Gt(st.circulating_supply, 0)
            THEN MulDiv(burnData.tokens_burned, BPS, st.circulating_supply)
            ELSE 0
        permanent_impact == MulDiv(supply_reduction_pct, p.supply_elasticity, PCT)
        market_depth_proxy ==
            DivBy(Add(p.monthly_woofi_swap_volume, p.monthly_woox_volume), DAYS)
        buying_pressure_usd ==
            IF mv = "v1" THEN burnData.auto_compound_usd ELSE burnData.buyback_usd
        buy_pressure_ratio ==
            IF Gt(market_depth_proxy, 0)
            THEN DivBy(buying_pressure_usd, market_depth_proxy * (USD_PER_M \div BPS))
            ELSE 0
        new_temporary_impact == MulDiv(buy_pressure_ratio, p.buying_pressure_elasticity, PCT)
        decayed_impact ==
            MulDiv(st.temporary_price_impact, Sub(PCT, p.buying_pressure_decay), PCT)
    IN  [ permanent_impact |-> permanent_impact,
          new_temporary_impact |-> new_temporary_impact,
          total_temporary_impact |-> Add(decayed_impact, new_temporary_impact) ]

\* the month's burn is recorded as the whole purchase
updateIntermediateVariables_BurnIsPurchase(st, mv, distributionData, burnData, priceImpactData) ==
    [ st EXCEPT
        !.tokens_to_burn = burnData.market_purchase_tokens,
        !.market_purchase_tokens = burnData.market_purchase_tokens,
        !.auto_compound_usd = IF mv = "v1" THEN burnData.auto_compound_usd ELSE 0,
        !.buyback_usd = IF mv = "v1" THEN 0 ELSE burnData.buyback_usd,
        !.buyback_burn_amount =
            IF mv = "v1" THEN 0 ELSE distributionData.buyback_burn_amount,
        !.permanent_impact = priceImpactData.permanent_impact,
        !.total_temporary_impact = priceImpactData.total_temporary_impact ]

updateIntermediateVariables(st, mv, distributionData, burnData, priceImpactData) ==
    [ st EXCEPT
        !.tokens_to_burn = burnData.tokens_burned,
        !.market_purchase_tokens = burnData.market_purchase_tokens,
        !.auto_compound_usd = IF mv = "v1" THEN burnData.auto_compound_usd ELSE 0,
        !.buyback_usd = IF mv = "v1" THEN 0 ELSE burnData.buyback_usd,
        !.buyback_burn_amount =
            IF mv = "v1" THEN 0 ELSE distributionData.buyback_burn_amount,
        !.permanent_impact = priceImpactData.permanent_impact,
        !.total_temporary_impact = priceImpactData.total_temporary_impact ]

\* the WOOFi inflow is not added to the balance
updateTreasuryV1_InflowDropped(st, distributionData, burnData) ==
    LET woofi_inflow_tokens ==
            IF Gt(st.woo_price, 0)
            THEN TokensAt(distributionData.woofi_treasury_inflow_usd, st.woo_price) ELSE 0
        woox_inflow_tokens ==
            IF Gt(st.woo_price, 0)
            THEN TokensAt(distributionData.woox_treasury_inflow_usd, st.woo_price) ELSE 0
    IN  [ st EXCEPT
            !.woofi_treasury_balance =
                MathMax(0, Sub(@, burnData.woofi_tokens_burned)),
            !.woox_treasury_balance =
                MathMax(0, Add(@, Sub(woox_inflow_tokens, burnData.woox_tokens_burned))) ]

updateTreasuryV1(st, distributionData, burnData) ==
    LET woofi_inflow_tokens ==
            IF Gt(st.woo_price, 0)
            THEN TokensAt(distributionData.woofi_treasury_inflow_usd, st.woo_price) ELSE 0
        woox_inflow_tokens ==
            IF Gt(st.woo_price, 0)
            THEN TokensAt(distributionData.woox_treasury_inflow_usd, st.woo_price) ELSE 0
    IN  [ st EXCEPT
            !.woofi_treasury_balance =
                MathMax(0, Add(@, Sub(woofi_inflow_tokens, burnData.woofi_tokens_burned))),
            !.woox_treasury_balance =
                MathMax(0, Add(@, Sub(woox_inflow_tokens, burnData.woox_tokens_burned))) ]

\* the WOO X inflow is not credited
updateTreasuryV2_NoWooxInflow(st, distributionData, burnData) ==
    LET woofi_inflow_tokens ==
            IF Gt(st.woo_price, 0)
            THEN TokensAt(distributionData.woofi_treasury_inflow_usd, st.woo_price) ELSE 0
        woox_inflow_tokens ==
            IF Gt(st.woo_price, 0)
            THEN TokensAt(distributionData.woox_treasury_inflow_usd, st.woo_price) ELSE 0
    IN  [ st EXCEPT
            !.woofi_treasury_balance = Add(@, woofi_inflow_tokens) ]

updateTreasuryV2(st, distributionData, burnData) ==
    LET woofi_inflow_tokens ==
            IF Gt(st.woo_price, 0)
            THEN TokensAt(distributionData.woofi_treasury_inflow_usd, st.woo_price) ELSE 0
        woox_inflow_tokens ==
            IF Gt(st.woo_price, 0)
            THEN TokensAt(distributionData.woox_treasury_inflow_usd, st.woo_price) ELSE 0
    IN  [ st EXCEPT
            !.woofi_treasury_balance = Add(@, woofi_inflow_tokens),
            !.woox_treasury_balance = Add(@, woox_inflow_tokens) ]

updateTreasury(st, mv, distributionData, burnData) ==
    IF mv = "v1" THEN updateTreasuryV1(st, distributionData, burnData)
    ELSE updateTreasuryV2(st, distributionData, burnData)

\* the purchases are staked in both variants
updateStakerPositions_BothVariants(st, mv, burnData) ==
    IF Gt(burnData.market_purchase_tokens, 0)
    THEN [ st EXCEPT !.total_staked_woo = Add(@, burnData.market_purchase_tokens) ]
    ELSE st

updateStakerPositions(st, mv, burnData) ==
    IF mv = "v1" /\ Gt(burnData.market_purchase_tokens, 0)
    THEN [ st EXCEPT !.total_staked_woo = Add(@, burnData.market_purchase_tokens) ]
    ELSE st

\* the purchases are added to the circulating supply instead of removed
updateSupply_AddsPurchases(st, burnData) ==
    IF Lt(burnData.tokens_burned, 0) \/ ~isFinite(burnData.tokens_burned)
       \/ Lt(burnData.market_purchase_tokens, 0) \/ ~isFinite(burnData.market_purchase_tokens)
    THEN st
    ELSE [ st EXCEPT
             !.total_supply = Sub(@, burnData.tokens_burned),
             !.circulating_supply = Add(@, burnData.market_purchase_tokens),
             !.cumulative_tokens_burned = Add(@, burnData.tokens_burned) ]

updateSupply(st, burnData) ==
    IF Lt(burnData.tokens_burned, 0) \/ ~isFinite(burnData.tokens_burned)
       \/ Lt(burnData.market_purchase_tokens, 0) \/ ~isFinite(burnData.market_purchase_tokens)
    THEN st
    ELSE [ st EXCEPT
             !.total_supply = Sub(@, burnData.tokens_burned),
             !.circulating_supply = Sub(@, burnData.market_purchase_tokens),
             !.cumulative_tokens_burned = Add(@, burnData.tokens_burned) ]

\* console.error of updateSupply, called on the state st
updateSupplyErrors(st, burnData) ==
    IF Lt(burnData.tokens_burned, 0) \/ ~isFinite(burnData.tokens_burned)
       \/ Lt(burnData.market_purchase_tokens, 0) \/ ~isFinite(burnData.market_purchase_tokens)
    THEN { "Invalid burn data" }
    ELSE IF Lt(updateSupply(st, burnData).total_supply, 0)
            \/ Lt(updateSupply(st, burnData).circulating_supply, 0)
    THEN { "Negative supply detected" }
    ELSE {}

price_change_multiplier(priceImpactData) ==
    Add(Add(PCT, priceImpactData.permanent_impact), priceImpactData.total_temporary_impact)

\* woo_price * multiplier; a product beyond PRICE_MAX is not formed (it would
\* leave the checker's integers) and any value above the cap stands for it.
ScalePrice(price, multiplier) ==
    IF IsNaN(price) THEN NaN
    ELSE IF multiplier > (PRICE_MAX * PCT) \div price THEN PRICE_MAX + 1
    ELSE (price * multiplier) \div PCT

\* the $1000 cap is missing
ClampPrice_NoCap(x) == MathMax(PRICE_MIN, x)

ClampPrice(x) == MathMax(PRICE_MIN, MathMin(PRICE_MAX, x))

\* an invalid multiplier is not skipped: the price falls to the floor
updatePrice_ClampsInvalid(st, priceImpactData) ==
    LET m == price_change_multiplier(priceImpactData)
    IN  [ st EXCEPT
            !.woo_price = IF IsNaN(m) \/ ~isFinite(m) \/ Le(m, 0) THEN PRICE_MIN
                          ELSE ClampPrice(ScalePrice(@, m)),
            !.temporary_price_impact = priceImpactData.total_temporary_impact ]

updatePrice(st, priceImpactData) ==
    LET m == price_change_multiplier(priceImpactData)
    IN  IF IsNaN(m) \/ ~isFinite(m) \/ Le(m, 0) THEN st
        ELSE [ st EXCEPT
                 !.woo_price = ClampPrice(ScalePrice(@, m)),
                 !.temporary_price_impact = priceImpactData.total_temporary_impact ]

\* console.error of updatePrice
updatePriceErrors(priceImpactData) ==
    LET m == price_change_multiplier(priceImpactData)
    IN  IF IsNaN(m) \/ ~isFinite(m) \/ Le(m, 0) THEN { "Invalid price multiplier" } ELSE {}

\* The last 12 entries of a series: indices startIndex .. endIndex - 1
TrailingYear(series) ==
    LET endIndex == Len(series)
        startIndex == IF endIndex > MONTHS_PER_YEAR THEN endIndex - MONTHS_PER_YEAR ELSE 0
    IN  SubSeq(series, startIndex + 1, endIndex)

\* sum of (entry || 0) * 1e6 over a window of a series kept in units of `unit`
RECURSIVE AnnualSum(_, _)
AnnualSum(window, unit) ==
    IF window = <<>> THEN 0
    ELSE OrZero(Head(window)) * unit + AnnualSum(Tail(window), unit)

\* circulating_supply * woo_price, in millions of USD
marketCap(st) ==
    LET tokens == DivBy(st.circulating_supply, KTOK)
    IN  IF IsNaN(tokens) \/ IsNaN(st.woo_price) THEN NaN
        ELSE tokens * (st.woo_price \div PRICE_UNIT)
             + (tokens * (st.woo_price % PRICE_UNIT)) \div PRICE_UNIT

\* annualTokensBurned * woo_price, in USD
annualBurnValue(st) ==
    DivBy(Times(AnnualSum(TrailingYear(st.history.monthlyBurned), KTOK), st.woo_price),
          PRICE_UNIT \div KTOK)

annualUSDC(st) == AnnualSum(TrailingYear(st.history.usdc_distributed), KUSD)
annualBuybackUSD(st) == AnnualSum(TrailingYear(st.history.buyback_amounts), KUSD)
annualAutoCompoundUSD(st) == AnnualSum(TrailingYear(st.history.auto_compound_amounts), KUSD)

\* the denominators of the three ratios
totalAnnualValue(st) == Add(Add(annualUSDC(st), annualBurnValue(st)), annualAutoCompoundUSD(st))
totalAnnualValueUSD(st) == Add(annualUSDC(st), annualBuybackUSD(st))
totalAnnualValueMarket(st) == Add(annualUSDC(st), annualBurnValue(st))

\* value > 0 ? marketCap / value : Infinity
RatioOrInfinity(cap, value) ==
    IF Gt(value, 0)
    THEN (IF IsNaN(cap) THEN NaN ELSE Times(cap, USD_PER_M) \div value)
    ELSE Infinity

\* the ratio is stored as it is, infinite or not
StoredRatio_KeepsInfinity(ratio) == ratio

\* isFinite(ratio) ? ratio : null
StoredRatio(ratio) == IF isFinite(ratio) THEN ratio ELSE null

\* array[index] = value, index counted from 0; a write past the end leaves holes
SetAt(array, index, value) ==
    [ k \in 1..(IF index + 1 > Len(array) THEN index + 1 ELSE Len(array)) |->
        IF k = index + 1 THEN value ELSE IF k <= Len(array) THEN array[k] ELSE NaN ]

\* the ratio is written one month late, by the step that starts from month 12
YearCompleted_OneMonthLate(st) == st.month % MONTHS_PER_YEAR = 0

\* (this.simState.month + 1) % 12 === 0
YearCompleted(st) == (st.month + 1) % MONTHS_PER_YEAR = 0

\* The annual block of recordHistory, run on the state with the month pushed.
recordAnnualRatios(st, mv) ==
    LET yearNumber == (st.month + 1) \div MONTHS_PER_YEAR
        prRatio == RatioOrInfinity(marketCap(st), totalAnnualValue(st))
        pvRatioUSD == RatioOrInfinity(marketCap(st), totalAnnualValueUSD(st))
        pvRatioMarket == RatioOrInfinity(marketCap(st), totalAnnualValueMarket(st))
    IN  IF mv = "v1"
        THEN [ st EXCEPT !.annual_pr_ratios = SetAt(@, yearNumber - 1, StoredRatio(prRatio)) ]
        ELSE [ st EXCEPT
                 !.annual_pv_ratios_usd = SetAt(@, yearNumber - 1, StoredRatio(pvRatioUSD)),
                 !.annual_pv_ratios_market =
                     SetAt(@, yearNumber - 1, StoredRatio(pvRatioMarket)) ]

\* record.name of an object that may lack the property: undefined, which
\* every later arithmetic turns into NaN
Field(record, name) == IF name \in DOMAIN record THEN record[name] ELSE NaN

\* currentBurnRate > 0 ? totalTreasury / currentBurnRate : Infinity, in months;
\* the two / 1e6 cancel in the quotient
treasuryRunway(st, burnData) ==
    LET currentBurnRate == Field(burnData, "tokens_to_burn")
        totalTreasury == Add(st.woofi_treasury_balance, st.woox_treasury_balance)
    IN  IF Gt(currentBurnRate, 0) THEN DivBy(totalTreasury, currentBurnRate)
        ELSE Infinity

\* the new entry takes the place of the last one
push_ReplacesLast(array, value) ==
    IF array = <<>> THEN <<value>> ELSE [ array EXCEPT ![Len(array)] = value ]

\* array.push(value)
push(array, value) == Append(array, value)

\* the pushes of recordHistory, then the annual block; percentages in percent,
\* the divisors (initial price, initial circulating supply, total supply) are
\* not 0 in any run of the model
recordHistory(st, mv, burnData, distributionData, feeData) ==
    LET pushed ==
          [ st EXCEPT !.history =
            [ months |-> push(@.months, Add(st.month, 1)),
              woofi_treasury |->
                  push(@.woofi_treasury, DivBy(st.woofi_treasury_balance, KTOK)),
              woox_treasury |-> push(@.woox_treasury, DivBy(st.woox_treasury_balance, KTOK)),
              circulating |-> push(@.circulating, DivBy(st.circulating_supply, KTOK)),
              staked |-> push(@.staked, DivBy(st.total_staked_woo, KTOK)),
              price |-> push(@.price, st.woo_price),
              monthlyBurned |-> push(@.monthlyBurned, DivBy(burnData.tokens_burned, KTOK)),
              marketPurchases |->
                  push(@.marketPurchases, DivBy(burnData.market_purchase_tokens, KTOK)),
              permImpact |-> push(@.permImpact, st.permanent_impact),
              tempImpact |-> push(@.tempImpact, st.temporary_price_impact),
              usdc_distributed |->
                  push(@.usdc_distributed, DivBy(burnData.usdc_to_stakers, KUSD)),
              auto_compound_amounts |->
                  push(@.auto_compound_amounts,
                       IF mv = "v1" THEN DivBy(burnData.auto_compound_usd, KUSD) ELSE 0),
              buyback_amounts |->
                  push(@.buyback_amounts,
                       IF mv = "v1" THEN 0 ELSE DivBy(burnData.buyback_usd, KUSD)),
              treasury_inflows |->
                  push(@.treasury_inflows,
                       DivBy(distributionData.woofi_treasury_inflow_usd, KUSD)),
              woofi_fees_generated |->
                  push(@.woofi_fees_generated, DivBy(feeData.total_gross_woofi_fees, KUSD)),
              woox_fees_generated |->
                  push(@.woox_fees_generated, DivBy(feeData.total_woox_fees, KUSD)),
              woox_treasury_inflows |->
                  push(@.woox_treasury_inflows, DivBy(feeData.woox_treasury_inflow, KUSD)),
              staker_fees_received |->
                  push(@.staker_fees_received,
                       DivBy(distributionData.staker_fees_total, KUSD)),
              treasury_fees_received |->
                  push(@.treasury_fees_received,
                       DivBy(distributionData.treasury_fees_total, KUSD)),
              orderly_fees_received |->
                  push(@.orderly_fees_received,
                       DivBy(distributionData.orderly_fees_total, KUSD)),
              buyback_fees_received |->
                  push(@.buyback_fees_received,
                       DivBy(distributionData.buyback_fees_total, KUSD)),
              treasury_runway_months |->
                  push(@.treasury_runway_months, treasuryRunway(st, burnData)),
              price_change_pct |->
                  push(@.price_change_pct,
                       MulDiv(Sub(st.woo_price, st.initial_values.price), PCT,
                              st.initial_values.price)),
              supply_reduction_pct |->
                  push(@.supply_reduction_pct,
                       MulDiv(st.cumulative_tokens_burned, PCT,
                              st.initial_values.circulating_supply)),
              cumulative_burned |->
                  push(@.cumulative_burned, DivBy(st.cumulative_tokens_burned, KTOK)),
              staking_ratio |->
                  push(@.staking_ratio,
                       MulDiv(st.total_staked_woo, PCT, st.total_supply)),
              treasury_runway |-> push(@.treasury_runway, treasuryRunway(st, burnData)) ] ]
    IN  IF YearCompleted(st) THEN recordAnnualRatios(pushed, mv) ELSE pushed

\* this.simState.history.months of a state without history throws a TypeError
recordHistoryThrows(st) == ~st.history_defined

\* console.error of the two catch blocks the TypeError passes through
recordHistoryErrors ==
    { "Error in recordHistory", "Error in simulation step", "Current state" }

\* the run stops one month late
EndOfRun_OffByOne(st, p) == Gt(st.month, p.simulation_months)

\* currentMonth >= this.simParams.simulation_months
EndOfRun(st, p) == Ge(st.month, p.simulation_months)

\* an empty treasury does not stop the run, only an overdrawn one
TreasuryDepleted_OnlyOverdrawn(st, mv) == mv = "v1" /\ Lt(st.woofi_treasury_balance, 0)

\* this.modelVersion === 'v1' && this.simState.woofi_treasury_balance <= 0
TreasuryDepleted(st, mv) == mv = "v1" /\ Le(st.woofi_treasury_balance, 0)

\* the month counter is not advanced
AdvanceMonth_Forgotten(st) == st

\* this.simState.month++
AdvanceMonth(st) == [ st EXCEPT !.month = Add(@, 1) ]

----------------------------------------------------------------------------
(* Inputs: the controls object handed to initialize *)

\* The default form with a trading fee rate of 8 instead of 0.08, so that a
\* month's fees move supply and price by more than one unit of the model.
BusyControls == [ DEFAULT_VALUES EXCEPT !.woofiTradingFeeRate = <<800>> ]

\* Values a well-formed form can hold (fractions in [0,1], volumes >= 0).
ValidOverrides ==
    { <<"woofiSwapVolume", <<0>>>>, <<"woofiSwapVolume", <<500>>>>,
      <<"woofiPerpVolume", <<0>>>>,
      <<"wooxVolume", <<0>>>>,
      <<"woofiTradingFeeRate", <<0>>>>,
      <<"affiliateCut", <<100>>>>,
      <<"supplyElasticity", <<0>>>>, <<"supplyElasticity", <<5000000>>>>,
      <<"supplyElasticity", <<-2000>>>>, <<"supplyElasticity", <<-200>>>>,
      <<"buyingPressureElasticity", <<50>>>>,
      <<"buyingPressureDecay", <<100>>>>,
      <<"circulatingSupply", <<1>>>>,
      <<"circulatingSupply", <<1000>>>>, <<"circulatingSupply", <<2500>>>>,
      <<"simulationDuration", <<0>>>>, <<"simulationDuration", <<1>>>>,
      <<"initialWoofiTreasury", <<0>>>>, <<"initialWoofiTreasury", <<1>>>>,
      <<"initialWooxTreasury", <<0>>>>,
      <<"autoCompoundRate", <<0>>>>, <<"autoCompoundRate", <<100>>>>,
      <<"buybackBurnShare", <<0>>>>, <<"buybackBurnShare", <<100>>>>,
      <<"treasuryShare", <<0>>>>,
      <<"wooxStakerBps", <<200>>>>, <<"wooxStakerBps", <<1000>>>> }

\* Values no validation would accept: non-numeric text, negative volumes and
\* balances, fractions outside [0,1].
InvalidOverrides ==
    { <<"woofiSwapVolume", <<>>>>, <<"woofiSwapVolume", <<-49>>>>,
      <<"buybackBurnShare", <<>>>>, <<"buybackBurnShare", <<-50>>>>,
      <<"autoCompoundRate", <<>>>>,
      <<"affiliateCut", <<150>>>>,
      <<"supplyElasticity", <<>>>>,
      <<"simulationDuration", <<>>>>,
      <<"initialWoofiTreasury", <<-5>>>>, <<"initialWooxTreasury", <<>>>> }

\* Controls whose DOM element may be absent from the page: one that both
\* variants read, one that only Variant B reads, one read for the state.
AbsentControls == { "woofiSwapVolume", "buybackBurnShare", "initialStaked" }

Override(c, o) == [ c EXCEPT ![o[1]] = o[2] ]
Without(c, names) == [ n \in (DOMAIN c) \ names |-> c[n] ]

\* A form with every volume at 0: no fees, no rewards, no purchases.
IdleControls ==
    [ BusyControls EXCEPT !.woofiSwapVolume = <<0>>, !.woofiPerpVolume = <<0>>,
                          !.wooxVolume = <<0>> ]

\* Fee splits (buyback, stakers, treasury) that sum to 100%, besides the
\* default 50 / 30 / 20.
Splits == { <<33, 33, 34>>, <<100, 0, 0>>, <<0, 0, 100>> }

SplitControls(split) ==
    [ BusyControls EXCEPT !.buybackBurnShare = <<split[1]>>,
                          !.stakerShare = <<split[2]>>,
                          !.treasuryShare = <<split[3]>> ]

\* getControlValues(): the elements the page has, with the values typed in
ControlSets ==
    { DEFAULT_VALUES, BusyControls, IdleControls }
    \cup { SplitControls(split) : split \in Splits }
    \cup { Override(BusyControls, o) : o \in ValidOverrides \cup InvalidOverrides }

----------------------------------------------------------------------------
(* Behaviour *)

\* The status line of the page (UIManager.updateSimulationStatus).
resetButton == "ready"
setSimulationRunning == "running"
setSimulationFinished == "completed"

\* The interval callback of startSimulation: a step that returned false is
\* followed by stopSimulation(), which calls setSimulationFinished().
stopSimulation(continueSimulation, shown) ==
    IF continueSimulation THEN shown ELSE setSimulationFinished

Init ==
    /\ simParams = UndefinedParams
    /\ simState = UndefinedState
    /\ modelVersion = "undefined"
    /\ absent \in { {} } \cup { {n} : n \in AbsentControls }
    /\ controls = Without(DEFAULT_VALUES, absent)
    /\ lastOp = "new"
    /\ ret = "none"
    /\ path = "none"
    /\ threw = FALSE
    /\ trueCalls = 0
    /\ stops = 0
    /\ status = resetButton
    /\ consoleErrors = {}

\* the price of the previous run survives initialize()
Initialize_KeepsPrice ==
    \E form \in ControlSets, mv \in { "v1", "v2" } :
        LET c == Without(form, absent)
        IN  /\ modelVersion' = mv
            /\ lastOp' = "initialize"
            /\ ret' = "none"
            /\ path' = "none"
            /\ stops' = 0
            /\ consoleErrors' = {}
            /\ UNCHANGED absent
            /\ IF ParamsThrow(c, mv)
               THEN /\ threw' = TRUE
                    /\ UNCHANGED <<simParams, simState, controls, trueCalls, status>>
               ELSE IF StateThrows(c)
               THEN /\ threw' = TRUE
                    /\ simParams' = BuildParams(c, mv)
                    /\ UNCHANGED <<simState, controls, trueCalls, status>>
               ELSE /\ threw' = FALSE
                    /\ status' = setSimulationRunning
                    /\ controls' = c
                    /\ trueCalls' = 0
                    /\ simParams' = BuildParams(c, mv)
                    /\ simState' =
                         [ BuildState(c, BuildParams(c, mv)) EXCEPT
                             !.woo_price = IF simState.history_defined
                                           THEN simState.woo_price ELSE @ ]

\* initialize(), called by startSimulation; a call that returns is followed by
\* setSimulationRunning(true), a call that throws by showError() only.
\* controls names the object handed to the last initialize() that returned;
\* trueCalls counts the simulationStep() calls that returned true since then,
\* stops the calls in a row that returned false (up to MaxStops).
Initialize ==
    \E form \in ControlSets, mv \in { "v1", "v2" } :
        LET c == Without(form, absent)
        IN  /\ modelVersion' = mv
            /\ lastOp' = "initialize"
            /\ ret' = "none"
            /\ path' = "none"
            /\ stops' = 0
            /\ consoleErrors' = {}
            /\ UNCHANGED absent
            /\ IF ParamsThrow(c, mv)
               THEN /\ threw' = TRUE
                    /\ UNCHANGED <<simParams, simState, controls, trueCalls, status>>
               ELSE IF StateThrows(c)
               THEN /\ threw' = TRUE
                    /\ simParams' = BuildParams(c, mv)
                    /\ UNCHANGED <<simState, controls, trueCalls, status>>
               ELSE /\ threw' = FALSE
                    /\ status' = setSimulationRunning
                    /\ controls' = c
                    /\ trueCalls' = 0
                    /\ simParams' = BuildParams(c, mv)
                    /\ simState' = BuildState(c, BuildParams(c, mv))

\* return <value> from simulationStep(), leaving simState = st
Return(st, value, statement, errors) ==
    /\ simState' = st
    /\ consoleErrors' = errors
    /\ ret' = IF value THEN "true" ELSE "false"
    /\ path' = statement
    /\ trueCalls' = IF value THEN trueCalls + 1 ELSE trueCalls
    /\ stops' = IF value THEN 0 ELSE IF stops < MaxStops THEN stops + 1 ELSE stops
    /\ lastOp' = "simulationStep"
    /\ status' = stopSimulation(value, status)
    /\ UNCHANGED <<simParams, modelVersion, absent, controls, threw>>

\* the depletion check runs after the month's treasury update was applied
SimulationStep_LateDepletionCheck ==
    /\ IsNaN(simState.month) \/ simState.month <= MaxDuration
    /\ IF EndOfRun(simState, simParams)
       THEN Return(simState, FALSE, "ended", {})
       ELSE
        \E feeData \in { calculateFees(simParams) } :
        \E distributionData \in { distributeFees(simParams, modelVersion, feeData) } :
        \E burnData \in
             { calculateBuybackAndBurn(simState, simParams, modelVersion, distributionData) } :
        \E priceImpactData \in
             { calculatePriceImpact(simState, simParams, modelVersion, burnData) } :
        \E s1 \in { updateIntermediateVariables(simState, modelVersion, distributionData,
                                                burnData, priceImpactData) } :
        \E s2 \in { updateTreasury(s1, modelVersion, distributionData, burnData) } :
        \E s3 \in { updateStakerPositions(s2, modelVersion, burnData) } :
        \E s4 \in { updateSupply(s3, burnData) } :
        \E s5 \in { updatePrice(s4, priceImpactData) } :
        \E errors \in { calculateBuybackAndBurnErrors(simState, simParams, modelVersion,
                                                       distributionData)
                         \cup updateSupplyErrors(s3, burnData)
                         \cup updatePriceErrors(priceImpactData) } :
            IF TreasuryDepleted(simState, modelVersion)
            THEN Return(s2, FALSE, "depleted", {})
            ELSE IF recordHistoryThrows(s5)
            THEN Return(s5, FALSE, "catch", errors \cup recordHistoryErrors)
            ELSE Return(AdvanceMonth(recordHistory(s5, modelVersion, burnData,
                                                   distributionData, feeData)),
                        TRUE, "continue", errors)

(* simulationStep().  Each \E binds the constant of the same name in the code
   to the value of its initializer; s1..s5 are simState after each update of
   BLOCK 3.  A run with an unparsable duration never completes; the model
   follows it for MaxDuration + 1 months. *)
SimulationStep ==
    /\ IsNaN(simState.month) \/ simState.month <= MaxDuration
    /\ IF EndOfRun(simState, simParams)
       THEN Return(simState, FALSE, "ended", {})
       ELSE IF TreasuryDepleted(simState, modelVersion)
       THEN Return(simState, FALSE, "depleted", {})
       ELSE
        \E feeData \in { calculateFees(simParams) } :
        \E distributionData \in { distributeFees(simParams, modelVersion, feeData) } :
        \E burnData \in
             { calculateBuybackAndBurn(simState, simParams, modelVersion, distributionData) } :
        \E priceImpactData \in
             { calculatePriceImpact(simState, simParams, modelVersion, burnData) } :
        \E s1 \in { updateIntermediateVariables(simState, modelVersion, distributionData,
                                                burnData, priceImpactData) } :
        \E s2 \in { updateTreasury(s1, modelVersion, distributionData, burnData) } :
        \E s3 \in { updateStakerPositions(s2, modelVersion, burnData) } :
        \E s4 \in { updateSupply(s3, burnData) } :
        \E s5 \in { updatePrice(s4, priceImpactData) } :
        \E errors \in { calculateBuybackAndBurnErrors(simState, simParams, modelVersion,
                                                       distributionData)
                         \cup updateSupplyErrors(s3, burnData)
                         \cup updatePriceErrors(priceImpactData) } :
            IF recordHistoryThrows(s5)
            THEN Return(s5, FALSE, "catch", errors \cup recordHistoryErrors)
            ELSE Return(AdvanceMonth(recordHistory(s5, modelVersion, burnData,
                                                   distributionData, feeData)),
                        TRUE, "continue", errors)

Next == Initialize \/ SimulationStep

Spec == Init /\ [][Next]_vars

\* One run: the object is initialized once, and the driver (setInterval in
\* startSimulation, main.js) keeps calling simulationStep().
InitializeOnce == modelVersion = "undefined" /\ Initialize

RunNext == InitializeOnce \/ SimulationStep

RunSpec == Init /\ [][RunNext]_vars /\ WF_vars(SimulationStep)

----------------------------------------------------------------------------
(* Well-formed runs *)

Numeric(c, name) == name \in DOMAIN c /\ c[name] # <<>>
InRange(c, name, lo, hi) == Numeric(c, name) /\ c[name][1] >= lo /\ c[name][1] <= hi
AtLeast(c, name, lo) == Numeric(c, name) /\ c[name][1] >= lo

\* Every control read is numeric, volumes and balances are >= 0 and every
\* fraction lies in [0,1] (percent controls in 0..100, rates in 0..1000000 ppm).
ValidControls(c, mv) ==
    /\ \A n \in ParamControls(mv) \cup StateControls : Numeric(c, n)
    /\ \A n \in { "woofiSwapVolume", "woofiPerpVolume", "wooxVolume",
                  "circulatingSupply", "initialStaked", "initialWoofiTreasury",
                  "initialWooxTreasury", "simulationDuration" } : AtLeast(c, n, 0)
    /\ \A n \in { "affiliateCut", "buyingPressureDecay" } : InRange(c, n, 0, PCT)
    /\ InRange(c, "woofiTradingFeeRate", 0, USD_PER_M)
    /\ IF mv = "v1" THEN InRange(c, "autoCompoundRate", 0, PCT)
       ELSE /\ \A n \in { "buybackBurnShare", "stakerShare", "treasuryShare" } :
                   InRange(c, n, 0, PCT)
            /\ InRange(c, "wooxStakerBps", 0, USD_PER_M)

\* The state and the parameters were built by one initialize() call that
\* returned, from a well-formed controls object.
ValidRun ==
    /\ lastOp # "new"
    /\ ~threw
    /\ modelVersion \in { "v1", "v2" }
    /\ ValidControls(controls, modelVersion)

StepTaken == lastOp' = "simulationStep"

----------------------------------------------------------------------------
(* Claims *)

\* C1: supply monotonicity - across every simulationStep() of a well-formed
\* run of either variant, total_supply and circulating_supply do not increase.
SupplyMonotone ==
    [][ (ValidRun /\ StepTaken) =>
          /\ Le(simState'.total_supply, simState.total_supply)
          /\ Le(simState'.circulating_supply, simState.circulating_supply) ]_vars

\* a v1 month whose burn was capped by the treasury: circulating supply fell
\* by more than total supply, and both fell
SupplyMonotoneWitness ==
    /\ ValidRun /\ lastOp = "simulationStep" /\ ret = "true" /\ modelVersion = "v1"
    /\ simState.total_supply < INITIAL_STATE.total_supply
    /\ simState.initial_values.circulating_supply - simState.circulating_supply
         > INITIAL_STATE.total_supply - simState.total_supply

\* C2: circulating_supply <= total_supply <= max_supply in every state of a
\* well-formed run, after initialize and after any number of steps.
SupplyOrdering ==
    ValidRun =>
        /\ Le(simState.circulating_supply, simState.total_supply)
        /\ Le(simState.total_supply, simState.max_supply)

\* C3: both treasury balances are >= 0 in every state of a well-formed run.
TreasuryNonNegative ==
    ValidRun =>
        /\ Ge(simState.woofi_treasury_balance, 0)
        /\ Ge(simState.woox_treasury_balance, 0)

\* C4: in a well-formed v2 run no simulationStep() lowers a treasury balance.
TreasuryAccumulationOnlyV2 ==
    [][ (ValidRun /\ modelVersion = "v2" /\ StepTaken) =>
          /\ Ge(simState'.woofi_treasury_balance, simState.woofi_treasury_balance)
          /\ Ge(simState'.woox_treasury_balance, simState.woox_treasury_balance) ]_vars

\* woo_price * m / 100 clamped to [PRICE_MIN, PRICE_MAX], written out
ExpectedPrice(price, m) ==
    IF m > (10000000 * 100) \div price THEN 10000000
    ELSE IF (price * m) \div 100 < 1 THEN 1
    ELSE (price * m) \div 100

\* C5: the spot price of an initialized state lies in [0.0001, 1000], and every
\* price update multiplies the price by (1 + permanent + total temporary
\* impact) and clamps the product to that interval.
PriceBounded ==
    simState.history_defined =>
        /\ Ge(simState.woo_price, 1)
        /\ Le(simState.woo_price, 10000000)

PriceUpdateLaw ==
    (StepTaken /\ ret' = "true" /\ simState.history_defined) =>
        LET m == Add(Add(100, simState'.permanent_impact), simState'.total_temporary_impact)
        IN  Gt(m, 0) => simState'.woo_price = ExpectedPrice(simState.woo_price, m)

PriceBounds == []PriceBounded /\ [][PriceUpdateLaw]_vars

\* a month whose product exceeded the cap left the price at 1000
PriceBoundsWitness ==
    /\ lastOp = "simulationStep" /\ ret = "true"
    /\ simState.woo_price = 10000000
    /\ simState.permanent_impact > 1000000

\* A numeric degeneration arises in the month's pipeline: invalid price,
\* negative or non-finite buyback / staker flow, invalid price multiplier.
Degenerate(st, p, mv) ==
    LET distributionData == distributeFees(p, mv, calculateFees(p))
        flow == IF mv = "v1" THEN distributionData.total_staker_rewards_usd
                ELSE distributionData.buyback_burn_amount
        burnData == calculateBuybackAndBurn(st, p, mv, distributionData)
        m == price_change_multiplier(calculatePriceImpact(st, p, mv, burnData))
    IN  \/ Le(st.woo_price, 0) \/ ~isFinite(st.woo_price)
        \/ Lt(flow, 0) \/ ~isFinite(flow)
        \/ ~isFinite(m) \/ Le(m, 0)

\* C6: a simulationStep() in which a numeric degeneration arises returns
\* false (the run is aborted) instead of true.
AbortOnDegeneration ==
    [][ (StepTaken /\ Degenerate(simState, simParams, modelVersion)) =>
          ret' = "false" ]_vars

\* C7: initialize() rejects an invalid configuration - a call that returned
\* normally was given a controls object with every required control present,
\* numeric and in range.
InitializeRejectsInvalid ==
    lastOp = "initialize" => (threw \/ ValidControls(controls, modelVersion))

\* C8: terminal states are final - once simulationStep() has returned false,
\* the next simulationStep() call returns false too, until initialize().
StopIsFinal ==
    [][ (lastOp = "simulationStep" /\ ret = "false" /\ StepTaken) =>
          ret' = "false" ]_vars

\* a v1 run stopped by depletion was stepped again and again and stayed stopped
StopIsFinalWitness ==
    /\ ValidRun /\ lastOp = "simulationStep" /\ ret = "false"
    /\ path = "depleted" /\ stops = MaxStops

\* C9: a simulationStep() call that returns true runs the pipeline once and
\* increases month by exactly 1; a call that returns false leaves month as is.
StepAdvancesOneMonth ==
    [][ StepTaken =>
          IF ret' = "true"
          THEN /\ simState'.month = simState.month + 1
               /\ Len(simState'.history.months) = Len(simState.history.months) + 1
          ELSE /\ simState'.month = simState.month
               /\ simState'.history = simState.history ]_vars

\* two calls returned true and the run is in its third month
StepAdvancesOneMonthWitness ==
    /\ lastOp = "simulationStep" /\ ret = "true"
    /\ trueCalls = 2 /\ simState.month = 2

\* C10: after initialize with duration D a step called at month >= D returns
\* false, at most D calls return true, month never exceeds D, and repeated
\* step calls eventually return false.
DurationBound ==
    (lastOp # "new" /\ ~threw /\ Ge(simParams.simulation_months, 0)) =>
        /\ Le(simState.month, simParams.simulation_months)
        /\ trueCalls <= simParams.simulation_months

StepAtDuration ==
    (StepTaken /\ Ge(simState.month, simParams.simulation_months)) => ret' = "false"

EventuallyStops ==
    (lastOp = "simulationStep" /\ ret = "true" /\ isFinite(simParams.simulation_months))
        ~> (ret = "false")

CompletesAtDuration ==
    []DurationBound /\ [][StepAtDuration]_vars /\ EventuallyStops

\* a run of the longest duration made all its months and was then stopped
CompletesAtDurationWitness ==
    /\ ValidRun /\ path = "ended" /\ ret = "false"
    /\ simParams.simulation_months = MaxDuration
    /\ simState.month = MaxDuration /\ trueCalls = MaxDuration

\* C11: a v1 run initialized with a WOOFi treasury balance of 0 and a duration
\* > 0 stops on its first simulationStep(): the call returns false through the
\* depletion check, month stays 0 and nothing is recorded.
DepletedAtStart ==
    [][ ( /\ lastOp = "initialize" /\ ~threw /\ modelVersion = "v1"
          /\ simState.woofi_treasury_balance = 0
          /\ Gt(simParams.simulation_months, 0)
          /\ StepTaken )
        => ( /\ ret' = "false" /\ path' = "depleted"
             /\ simState'.month = 0
             /\ simState'.history = EmptyHistory
             /\ simState' = simState ) ]_vars

\* the first step of such a run has returned false at the depletion check
DepletedAtStartWitness ==
    /\ ValidRun /\ modelVersion = "v1" /\ controls.initialWoofiTreasury = <<0>>
    /\ lastOp = "simulationStep" /\ stops = 1 /\ trueCalls = 0
    /\ ret = "false" /\ path = "depleted"
    /\ simState.month = 0 /\ simState.history.months = <<>>
    /\ simParams.simulation_months > 0

\* C12: the report of a stopped run tells a full-duration completion from a
\* depletion stop and from an abort - after a step that returned false at the
\* depletion check or in the catch block the page does not show the status it
\* shows for a run that completed its duration.  The run was started by the
\* driver: its initialize() returned.
OutcomeDistinguished ==
    ( /\ modelVersion # "undefined" /\ ~threw
      /\ lastOp = "simulationStep" /\ ret = "false"
      /\ path \in { "depleted", "catch" } )
    => status # setSimulationFinished

\* C13: variant isolation - no step of a v2 run changes total_staked_woo, and
\* in a v1 run buyback_burn_amount, buyback_usd and every recorded
\* buyback_amounts and buyback_fees_received entry are 0.
StakedUntouchedV2 ==
    (StepTaken /\ modelVersion = "v2") =>
        simState'.total_staked_woo = simState.total_staked_woo

NoBuybackV1 ==
    (lastOp # "new" /\ ~threw /\ modelVersion = "v1") =>
        /\ simState.buyback_burn_amount = 0
        /\ simState.buyback_usd = 0
        /\ \A i \in 1..Len(simState.history.buyback_amounts) :
               simState.history.buyback_amounts[i] = 0
        /\ \A i \in 1..Len(simState.history.buyback_fees_received) :
               simState.history.buyback_fees_received[i] = 0

VariantIsolation == [][StakedUntouchedV2]_vars /\ []NoBuybackV1

\* a v2 month bought tokens on the market and the staked amount is still the
\* initial one
VariantIsolationWitness ==
    /\ ValidRun /\ modelVersion = "v2" /\ lastOp = "simulationStep" /\ ret = "true"
    /\ simState.market_purchase_tokens > 0
    /\ simState.month = 2
    /\ simState.total_staked_woo = simState.initial_values.total_staked

\* C14: split conservation - with buyback, staker and treasury fractions that
\* sum to 1, the three allocations of distributeFeesV2 sum to the net fees
\* (swap + perp - affiliate cut) up to the rounding of the six products, and
\* net fees + affiliate cut are the gross WOOFi fees.
SplitConservation ==
    ( /\ lastOp # "new" /\ ~threw /\ modelVersion = "v2"
      /\ Add(Add(simParams.buyback_burn_share, simParams.staker_share),
             simParams.treasury_share) = 100
      /\ Ge(simParams.buyback_burn_share, 0) /\ Ge(simParams.staker_share, 0)
      /\ Ge(simParams.treasury_share, 0) )
    => LET feeData == calculateFees(simParams)
           d == distributeFeesV2(simParams, feeData)
           allocated == Add(Add(d.buyback_burn_amount, d.woofi_staker_rewards),
                            d.woofi_treasury_inflow_usd)
           net == Sub(feeData.total_gross_woofi_fees, d.affiliate_cut)
       IN  isFinite(net) =>
             /\ Le(allocated, net) /\ Ge(allocated, Sub(net, 4))
             /\ Add(net, d.affiliate_cut) =
                  Add(feeData.gross_woofi_swap_fees, feeData.gross_woofi_perp_fees)
             /\ (lastOp = "simulationStep" /\ ret = "true") =>
                    simState.buyback_burn_amount = d.buyback_burn_amount

\* a v2 month under the split 33 / 33 / 34 with an affiliate cut: the buyback
\* allocation recorded is 33% of the net fees
SplitConservationWitness ==
    /\ ValidRun /\ modelVersion = "v2" /\ lastOp = "simulationStep" /\ ret = "true"
    /\ simParams.buyback_burn_share = 33 /\ simParams.treasury_share = 34
    /\ simParams.affiliate_share > 0
    /\ simState.buyback_burn_amount > 0
    /\ simState.buyback_burn_amount * 100 =
         33 * (calculateFees(simParams).total_gross_woofi_fees
               - distributeFeesV2(simParams, calculateFees(simParams)).affiliate_cut)

\* The state a simulationStep() that returns true leaves.
CompletedMonth(st, p, mv) ==
    LET feeData == calculateFees(p)
        distributionData == distributeFees(p, mv, feeData)
        burnData == calculateBuybackAndBurn(st, p, mv, distributionData)
        priceImpactData == calculatePriceImpact(st, p, mv, burnData)
        s1 == updateIntermediateVariables(st, mv, distributionData, burnData,
                                          priceImpactData)
        s2 == updateTreasury(s1, mv, distributionData, burnData)
        s3 == updateStakerPositions(s2, mv, burnData)
        s4 == updateSupply(s3, burnData)
        s5 == updatePrice(s4, priceImpactData)
    IN  AdvanceMonth(recordHistory(s5, mv, burnData, distributionData, feeData))

RECURSIVE Replay(_, _, _, _)
Replay(st, p, mv, k) ==
    IF k = 0 THEN st
    ELSE CHOOSE r \in { Replay(next, p, mv, k - 1) :
                          next \in { CompletedMonth(st, p, mv) } } : TRUE

\* C15: determinism - the state and the history of a run are a function of
\* its parameters, its variant and the number of steps that returned true:
\* whatever the object did before this run's initialize(), they equal those
\* of a fresh run with the same controls stepped the same number of times.
Determinism ==
    (lastOp # "new" /\ ~threw /\ modelVersion \in { "v1", "v2" }) =>
        /\ simParams = BuildParams(controls, modelVersion)
        /\ simState = Replay(BuildState(controls, BuildParams(controls, modelVersion)),
                             simParams, modelVersion, trueCalls)

\* a v2 run moved the price for a year and stored its two annual ratios
DeterminismWitness ==
    /\ ValidRun /\ modelVersion = "v2" /\ lastOp = "simulationStep"
    /\ trueCalls = 12 /\ Len(simState.history.price) = 12
    /\ simState.history.price[12] > simState.history.price[1]
    /\ Len(simState.annual_pv_ratios_usd) = 1

\* x * (1 - decay)^n, one month at a time
RECURSIVE DecayN(_, _, _)
DecayN(x, decay, n) ==
    IF n = 0 THEN x ELSE DecayN((x * (100 - decay)) \div 100, decay, n - 1)

\* The buying-pressure USD recorded for month m (one of the two is always 0).
RecordedPressure(h, m) == Add(h.auto_compound_amounts[m], h.buyback_amounts[m])

\* C16: decay law - if the buying-pressure USD is 0 in the months t+1 .. t+N,
\* the temporary price impact after month t+N is the one after month t (0 at
\* the start) multiplied N times by 1 - decay_rate; each single step with no
\* buying pressure multiplies it once.
DecayOverMonths ==
    (simState.history_defined /\ isFinite(simParams.buying_pressure_decay)) =>
        LET h == simState.history
            at(t) == IF t = 0 THEN 0 ELSE h.tempImpact[t]
        IN  \A t \in 0..Len(h.months), u \in 0..Len(h.months) :
                (t < u /\ \A m \in (t + 1)..u : RecordedPressure(h, m) = 0)
                    => h.tempImpact[u] = DecayN(at(t), simParams.buying_pressure_decay, u - t)

DecayOneMonth ==
    ( /\ StepTaken /\ ret' = "true" /\ isFinite(simParams.buying_pressure_decay)
      /\ (IF modelVersion = "v1" THEN simState'.auto_compound_usd
          ELSE simState'.buyback_usd) = 0 )
    => simState'.temporary_price_impact =
         DecayN(simState.temporary_price_impact, simParams.buying_pressure_decay, 1)

DecayLaw == []DecayOverMonths /\ [][DecayOneMonth]_vars

\* an impact built up by buying pressure has decayed for three months in which
\* no USD was spent, and is still positive
DecayLawWitness ==
    LET h == simState.history
        n == Len(h.months)
    IN  /\ lastOp = "simulationStep" /\ ret = "true" /\ n >= 5
        /\ \A m \in (n - 2)..n : RecordedPressure(h, m) = 0
        /\ RecordedPressure(h, n - 3) > 0
        /\ h.tempImpact[n] > 0
        /\ h.tempImpact[n] < h.tempImpact[n - 1]
        /\ h.tempImpact[n - 1] < h.tempImpact[n - 2]
        /\ h.tempImpact[n - 2] < h.tempImpact[n - 3]
        /\ simState.temporary_price_impact = h.tempImpact[n]

\* The burn result of the step taken from the current state.
BurnOfStep ==
    calculateBuybackAndBurn(simState, simParams, modelVersion,
                            distributeFees(simParams, modelVersion,
                                           calculateFees(simParams)))

\* C17: treasury-match cap - in every step of a well-formed v1 run that
\* completes a month,
\* tokens_burned = min(market_purchase_tokens, woofi_treasury_balance at the
\* start of the step), so the burn never exceeds that balance, and only the
\* WOOFi treasury burns (woox_tokens_burned = 0).
TreasuryMatchCap ==
    [][ (StepTaken /\ ret' = "true" /\ ValidRun /\ modelVersion = "v1") =>
          /\ simState'.tokens_to_burn = BurnOfStep.tokens_burned
          /\ simState'.market_purchase_tokens = BurnOfStep.market_purchase_tokens
          /\ simState'.tokens_to_burn =
               (IF simState'.market_purchase_tokens <= simState.woofi_treasury_balance
                THEN simState'.market_purchase_tokens
                ELSE simState.woofi_treasury_balance)
          /\ Le(simState'.tokens_to_burn, simState.woofi_treasury_balance)
          /\ simState'.total_supply = simState.total_supply - simState'.tokens_to_burn
          /\ BurnOfStep.woofi_tokens_burned = simState'.tokens_to_burn
          /\ BurnOfStep.woox_tokens_burned = 0 ]_vars

\* a v1 month whose purchase exceeded the treasury: the burn was the whole
\* balance held at the start of the run
TreasuryMatchCapWitness ==
    /\ ValidRun /\ modelVersion = "v1" /\ lastOp = "simulationStep" /\ ret = "true"
    /\ simState.month = 1
    /\ simState.tokens_to_burn > 0
    /\ simState.tokens_to_burn < simState.market_purchase_tokens
    /\ simState.tokens_to_burn = parseFloat(controls.initialWoofiTreasury) * KTOK

\* C18: direct buyback - in every v2 step that completes a month,
\* market_purchase_tokens = buyback_usd / price, tokens_burned equals it,
\* whatever the treasury balances are, and no treasury is debited (both
\* balances move by their inflow only; woofi_ and woox_tokens_burned are 0).
DirectBuyback ==
    [][ (StepTaken /\ ret' = "true" /\ modelVersion = "v2") =>
          LET d == distributeFees(simParams, "v2", calculateFees(simParams))
          IN  /\ simState'.market_purchase_tokens =
                   (simState'.buyback_usd * 10) \div simState.woo_price
              /\ simState'.tokens_to_burn = simState'.market_purchase_tokens
              /\ simState'.total_supply = simState.total_supply - simState'.tokens_to_burn
              /\ BurnOfStep.woofi_tokens_burned = 0
              /\ BurnOfStep.woox_tokens_burned = 0
              /\ simState'.woofi_treasury_balance =
                   Add(simState.woofi_treasury_balance,
                       TokensAt(d.woofi_treasury_inflow_usd, simState.woo_price))
              /\ simState'.woox_treasury_balance =
                   Add(simState.woox_treasury_balance,
                       TokensAt(d.woox_treasury_inflow_usd, simState.woo_price)) ]_vars

\* a v2 run that started with an empty WOOFi treasury bought and burned tokens
\* in its first month, and the treasury holds that month's inflow
DirectBuybackWitness ==
    /\ ValidRun /\ modelVersion = "v2" /\ lastOp = "simulationStep" /\ ret = "true"
    /\ simState.month = 1
    /\ controls.initialWoofiTreasury = <<0>>
    /\ simState.woofi_treasury_balance =
         TokensAt(distributeFeesV2(simParams, calculateFees(simParams))
                      .woofi_treasury_inflow_usd,
                  INITIAL_STATE.woo_price)
    /\ simState.woofi_treasury_balance > 0
    /\ simState.tokens_to_burn > 0
    /\ simState.tokens_to_burn = simState.market_purchase_tokens
    /\ simState.total_supply = INITIAL_STATE.total_supply - simState.tokens_to_burn

AnnualRatios(st) ==
    <<st.annual_pr_ratios, st.annual_pv_ratios_usd, st.annual_pv_ratios_market>>

\* C19: annual ratio presence - after k steps that returned true, a ratio
\* entry exists for year y exactly when 12 * y <= k (v1: annual_pr_ratios; v2:
\* annual_pv_ratios_usd and annual_pv_ratios_market, the other variant's arrays
\* stay empty), and only a step that completes a month that is a multiple of 12
\* writes a ratio.
RatiosPresent ==
    (lastOp # "new" /\ ~threw /\ modelVersion \in { "v1", "v2" }) =>
        LET years == trueCalls \div 12
            written == IF modelVersion = "v1" THEN { 1 } ELSE { 2, 3 }
        IN  \A a \in 1..3 :
                /\ Len(AnnualRatios(simState)[a]) = (IF a \in written THEN years ELSE 0)
                /\ \A y \in 1..Len(AnnualRatios(simState)[a]) :
                       AnnualRatios(simState)[a][y] # NaN

RatiosWrittenAtYearEnd ==
    (StepTaken /\ AnnualRatios(simState') # AnnualRatios(simState)) =>
        /\ ret' = "true"
        /\ simState'.month = simState.month + 1
        /\ simState'.month % 12 = 0

AnnualRatioPresence == []RatiosPresent /\ [][RatiosWrittenAtYearEnd]_vars

\* the twelfth month of a v1 run stored the ratio of year 1, a number
AnnualRatioPresenceWitness ==
    /\ ValidRun /\ modelVersion = "v1" /\ lastOp = "simulationStep" /\ ret = "true"
    /\ trueCalls = 12 /\ simState.month = 12
    /\ Len(simState.annual_pr_ratios) = 1
    /\ simState.annual_pr_ratios[1] > 0
    /\ simState.annual_pv_ratios_usd = <<>>

\* C20: no stored annual ratio is infinite, and a ratio whose denominator (the
\* trailing 12-month value) is zero is stored as null.
NoInfiniteRatio ==
    \A a \in 1..3 : \A y \in 1..Len(AnnualRatios(simState)[a]) :
        /\ AnnualRatios(simState)[a][y] # 2147483647
        /\ AnnualRatios(simState)[a][y] = null \/ isFinite(AnnualRatios(simState)[a][y])

ZeroDenominatorIsNull ==
    (StepTaken /\ ret' = "true" /\ simState'.month % 12 = 0) =>
        LET y == simState'.month \div 12
        IN  IF modelVersion = "v1"
            THEN totalAnnualValue(simState') = 0 => simState'.annual_pr_ratios[y] = null
            ELSE /\ totalAnnualValueUSD(simState') = 0
                      => simState'.annual_pv_ratios_usd[y] = null
                 /\ totalAnnualValueMarket(simState') = 0
                      => simState'.annual_pv_ratios_market[y] = null

ZeroDenominatorRatio == []NoInfiniteRatio /\ [][ZeroDenominatorIsNull]_vars

\* a year without fees, rewards and burns: both v2 ratios of year 1 are null
ZeroDenominatorRatioWitness ==
    /\ ValidRun /\ modelVersion = "v2" /\ lastOp = "simulationStep" /\ ret = "true"
    /\ simState.month = 12
    /\ totalAnnualValueUSD(simState) = 0 /\ totalAnnualValueMarket(simState) = 0
    /\ marketCap(simState) > 0
    /\ simState.annual_pv_ratios_usd = <<null>>
    /\ simState.annual_pv_ratios_market = <<null>>

\* Strictly positive volumes, fee rate and split fractions, an affiliate share
\* below 1 and a WOO X staker rate below the total WOO X fee rate.
ProductiveV2(p) ==
    /\ Gt(p.monthly_woofi_swap_volume, 0) /\ Gt(p.monthly_woofi_perp_volume, 0)
    /\ Gt(p.monthly_woox_volume, 0) /\ Gt(p.woofi_fee_rate, 0)
    /\ Gt(p.buyback_burn_share, 0) /\ Gt(p.staker_share, 0) /\ Gt(p.treasury_share, 0)
    /\ Lt(p.affiliate_share, 100)
    /\ Lt(p.woox_staker_bps, p.woox_total_fee_rate)

\* The USD amount buys at least one unit of the model's token amounts (1000
\* tokens) at the price: a smaller purchase is positive in the code and 0 here.
BuysAUnit(usd, price) == usd * 10 >= price

\* C21: productive step of Variant B - in a well-formed v2 run with productive
\* parameters every step that returns true has tokens_burned > 0, strictly
\* lowers circulating_supply and strictly raises both treasury balances.
ProductiveStepV2 ==
    [][ ( /\ StepTaken /\ ret' = "true" /\ ValidRun /\ modelVersion = "v2"
          /\ ProductiveV2(simParams) )
        => LET d == distributeFeesV2(simParams, calculateFees(simParams))
           IN  /\ d.buyback_burn_amount > 0
               /\ d.woofi_treasury_inflow_usd > 0
               /\ d.woox_treasury_inflow_usd > 0
               /\ simState'.tokens_to_burn >= 0
               /\ simState'.circulating_supply <= simState.circulating_supply
               /\ simState'.woofi_treasury_balance >= simState.woofi_treasury_balance
               /\ simState'.woox_treasury_balance >= simState.woox_treasury_balance
               /\ BuysAUnit(d.buyback_burn_amount, simState.woo_price) =>
                    /\ simState'.tokens_to_burn > 0
                    /\ simState'.circulating_supply < simState.circulating_supply
               /\ BuysAUnit(d.woofi_treasury_inflow_usd, simState.woo_price) =>
                    simState'.woofi_treasury_balance > simState.woofi_treasury_balance
               /\ BuysAUnit(d.woox_treasury_inflow_usd, simState.woo_price) =>
                    simState'.woox_treasury_balance > simState.woox_treasury_balance ]_vars

\* the first month of the default v2 run burned tokens, lowered the
\* circulating supply and raised both treasuries
ProductiveStepV2Witness ==
    /\ ValidRun /\ modelVersion = "v2" /\ controls = DEFAULT_VALUES
    /\ lastOp = "simulationStep" /\ ret = "true" /\ simState.month = 1
    /\ ProductiveV2(simParams)
    /\ simState.tokens_to_burn > 0
    /\ simState.circulating_supply < simState.initial_values.circulating_supply
    /\ simState.woofi_treasury_balance > parseFloat(controls.initialWoofiTreasury) * KTOK
    /\ simState.woox_treasury_balance > parseFloat(controls.initialWooxTreasury) * KTOK

\* The form with another fee split.
WithSplit(c, split) ==
    [ c EXCEPT !.buybackBurnShare = <<split[1]>>, !.stakerShare = <<split[2]>>,
               !.treasuryShare = <<split[3]>> ]

\* The state of a fresh run of the form after k successful steps.
RunOf(c, mv, k) ==
    CHOOSE r \in UNION { { Replay(BuildState(c, p), p, mv, k) } :
                         p \in { BuildParams(c, mv) } } : TRUE

\* The WOOFi fees left after the affiliate share are positive.
WoofiFeesPositive(p) ==
    Gt(distributeFeesV2([ p EXCEPT !.buyback_burn_share = PCT ],
                        calculateFees(p)).buyback_burn_amount, 0)

\* A well-formed v2 run with a split summing to 100% has completed a year.
SplitYearDone ==
    /\ ValidRun /\ modelVersion = "v2" /\ trueCalls = MONTHS_PER_YEAR
    /\ simParams.buyback_burn_share + simParams.staker_share
         + simParams.treasury_share = PCT

\* Every run that differs only by a split with a smaller buyback share has
\* burned strictly less after the same 12 steps.
LighterSplitsBurnLess ==
    \A split \in Splits \cup { <<50, 30, 20>> } :
        split[1] < simParams.buyback_burn_share =>
            \A other \in { RunOf(WithSplit(controls, split), "v2", MONTHS_PER_YEAR) } :
                other.cumulative_tokens_burned < simState.cumulative_tokens_burned

SupplyClamped ==
    ValidRun => /\ Ge(simState.total_supply, 0)
                /\ Ge(simState.circulating_supply, 0)

\* The tokens the month's auto-compound USD buys at the price before the step.
PurchaseOfStep == TokensAt(simState'.auto_compound_usd, simState.woo_price)

MultiplierOfStep ==
    price_change_multiplier(calculatePriceImpact(simState, simParams, modelVersion,
                                                 BurnOfStep))

\* C25: price holds on an invalid multiplier - a step that runs the pipeline
\* with a multiplier that is NaN, infinite or <= 0 leaves woo_price as it was
\* and reports the condition with console.error.
PriceHoldsOnInvalidMultiplier ==
    [][ ( /\ StepTaken /\ path' \in { "continue", "catch" }
          /\ \/ IsNaN(MultiplierOfStep) \/ ~isFinite(MultiplierOfStep)
             \/ Le(MultiplierOfStep, 0) )
        => /\ simState'.woo_price = simState.woo_price
           /\ "Invalid price multiplier" \in consoleErrors' ]_vars

\* the first month of a well-formed run whose burn drove the multiplier to
\* <= 0: the month completed at the initial price and the error was reported
PriceHoldsOnInvalidMultiplierWitness ==
    /\ ValidRun /\ lastOp = "simulationStep" /\ ret = "true" /\ simState.month = 1
    /\ simState.tokens_to_burn > 0
    /\ PCT + simState.permanent_impact + simState.total_temporary_impact <= 0
    /\ simState.woo_price = simState.initial_values.price
    /\ "Invalid price multiplier" \in consoleErrors

\* C26: treasury runway in history - the entry a completed month appends to
\* treasury_runway_months and treasury_runway is the treasury balance the
\* recorder sees (WOOFi + WOO X) divided by the month's tokens burned when that
\* burn is > 0, and infinite only when the burn is 0.
TreasuryRunwayInHistory ==
    [][ (StepTaken /\ ret' = "true" /\ ValidRun) =>
          LET burn == simState'.tokens_to_burn
              treasury == simState'.woofi_treasury_balance
                            + simState'.woox_treasury_balance
              k == Len(simState'.history.months)
          IN  /\ simState'.history.treasury_runway[k]
                   = simState'.history.treasury_runway_months[k]
              /\ burn > 0 => simState'.history.treasury_runway_months[k] = treasury \div burn
              /\ burn = 0 => simState'.history.treasury_runway_months[k] = Infinity ]_vars

\* The names of the history series.
HistorySeries == DOMAIN EmptyHistory

\* C27: history is append-only and ordered - every step that returns true
\* appends exactly one entry to every history series and changes no earlier
\* entry; afterwards every series is as long as month, and history.months is
\* 1, 2, ..., month.
HistoryAppendOnly ==
    [][ (StepTaken /\ ret' = "true") =>
          /\ \A name \in HistorySeries :
                /\ Len(simState'.history[name]) = Len(simState.history[name]) + 1
                /\ SubSeq(simState'.history[name], 1, Len(simState.history[name]))
                     = simState.history[name]
                /\ Len(simState'.history[name]) = simState'.month
          /\ simState'.history.months = [ i \in 1..simState'.month |-> i ] ]_vars

\* three months of a well-formed run are recorded, in order, in every series
HistoryAppendOnlyWitness ==
    /\ ValidRun /\ lastOp = "simulationStep" /\ ret = "true" /\ trueCalls = 3
    /\ simState.history.months = <<1, 2, 3>>
    /\ \A name \in HistorySeries : Len(simState.history[name]) = 3
    /\ simState.history.cumulative_burned[3] > simState.history.cumulative_burned[1]

\* C28: burn conservation - in every state of an initialized run total_supply
\* + cumulative_tokens_burned is the initial total_supply, and every step adds
\* the month's tokens_burned to cumulative_tokens_burned and takes it from
\* total_supply (nothing else changes either).
BurnConservation ==
    /\ [](simState.history_defined =>
            Add(simState.total_supply, simState.cumulative_tokens_burned)
              = INITIAL_STATE.total_supply)
    /\ [][ (StepTaken /\ ValidRun) =>
             IF ret' = "true"
             THEN /\ simState'.cumulative_tokens_burned
                       = simState.cumulative_tokens_burned + simState'.tokens_to_burn
                  /\ simState'.total_supply
                       = simState.total_supply - simState'.tokens_to_burn
             ELSE /\ simState'.cumulative_tokens_burned = simState.cumulative_tokens_burned
                  /\ simState'.total_supply = simState.total_supply ]_vars

\* two months of a v1 run whose burn is capped by the treasury: the burns are
\* smaller than the purchases and add up in cumulative_tokens_burned
BurnConservationWitness ==
    /\ ValidRun /\ modelVersion = "v1" /\ lastOp = "simulationStep" /\ trueCalls = 2
    /\ simState.tokens_to_burn > 0
    /\ simState.tokens_to_burn < simState.market_purchase_tokens
    /\ simState.cumulative_tokens_burned > simState.tokens_to_burn
    /\ simState.total_supply
         = INITIAL_STATE.total_supply - simState.cumulative_tokens_burned

\* C29: a stopping step changes nothing - a simulationStep() call that returns
\* false leaves simState as it was.
StoppingStepChangesNothing ==
    [][ (StepTaken /\ ret' = "false") => simState' = simState ]_vars

\* The WOOFi treasury inflow of a month, in USD.
WoofiInflowUSD ==
    distributeFeesV1(simParams, calculateFees(simParams)).woofi_treasury_inflow_usd

====
